---- MODULE Spec2Model ----
(***************************************************************************)
(* Model of CRM-Admin-Infra: the CDK entry point that constructs one       *)
(* AdminInfraStack per selected environment and synthesises the app, the   *)
(* resources each of the two versions of the stack declares, and the       *)
(* execution of the declared pipeline (Source, Build, Deploy) together     *)
(* with viewer requests against the declared distribution.                 *)
(***************************************************************************)
EXTENDS Integers, Sequences, FiniteSets, TLC

\* ------------------------------------------------------------------ bounds
\* longest settings file (number of lines) enumerated for the description
MaxLines == 2
\* longest settings file enumerated when the provisioned stack is run as well
MaxRunLines == 1
\* number of pipeline executions of the provisioned stack
MaxRuns == 2

\* ------------------------------------------------------------- input sets
Versions == {1, 2}
Keys == {"API_URL", "STAGE"}
Vals == {"a", "b"}
GarbageLine == [kind |-> "garbage", key |-> "", value |-> ""]
PairLines == {[kind |-> "pair", key |-> k, value |-> v] : k \in Keys, v \in Vals}
FileLines == PairLines \cup {GarbageLine}
SeqsUpTo(S, n) == UNION {[1..m -> S] : m \in 0..n}
EnvFiles(n) == {[exists |-> FALSE, lines |-> <<>>]}
                 \cup {[exists |-> TRUE, lines |-> l] : l \in SeqsUpTo(FileLines, n)}

EmptyMap == [k \in {} |-> ""]

\* one environment configuration object (devProps / prodProps)
EnvConfig(e, dep, pub) ==
  [environmentType |-> e,
   stackName |-> IF e = "dev" THEN "AdminInfraStack-dev" ELSE "AdminInfraStack-prod",
   isDeploy |-> dep,
   branch |-> IF e = "dev" THEN "develop" ELSE "main",
   pipelineName |-> IF e = "dev" THEN "admin-pipeline-dev" ELSE "admin-pipeline-prod",
   bucketName |-> IF e = "dev" THEN "admin-web-dev" ELSE "admin-web-prod",
   pipelineBucket |-> "admin-pipeline-artifacts",
   publicAccess |-> pub,
   indexFile |-> "index.html",
   errorFile |-> "index.html",
   githubRepoOwner |-> "owner",
   githubRepoName |-> "repo",
   githubAccessToken |-> "github-token"]

VARIABLES
  version,      \* which of the two AdminInfraStack classes the app uses
  envFile,      \* config/.env as found on disk
  envConfigs,   \* <<devProps, prodProps>>
  idx,          \* forEach position in envConfigs
  pc,           \* position of the entry point / constructor
  cur,          \* the stack under construction: [name, props, order, res]
  stacks,       \* stacks whose constructor has returned, in order
  error,        \* the exception that ended the run, "none" if none
  synthCount,   \* number of calls of app.synth()
  emitted,      \* the stacks of the cloud assembly app.synth() wrote
  live,         \* the provisioned stack whose pipeline is observed (NoStack if none)
  runs,         \* pipeline executions started
  stage,        \* index of the stage in progress, 0 when no execution is running
  bpos,         \* position inside the stage in progress
  buildFailed,  \* some phase of the build in progress failed
  artifacts,    \* artifact store of the execution: artifact name -> content
  log,          \* events of the current (or last) execution
  bucketContent,\* what the web bucket holds
  cache,        \* what the distribution has cached for the site's paths
  lastResponse  \* the last answer the distribution gave a viewer

declVars == <<version, envFile, envConfigs, idx, pc, cur, stacks, error, synthCount, emitted>>
runVars == <<live, runs, stage, bpos, buildFailed, artifacts, log, bucketContent, cache, lastResponse>>
vars == <<version, envFile, envConfigs, idx, pc, cur, stacks, error, synthCount, emitted,
          live, runs, stage, bpos, buildFailed, artifacts, log, bucketContent, cache, lastResponse>>

\* ------------------------------------------------------- settings loader
RECURSIVE DotenvParse(_)
\* dotenv.parse: a KEY=VALUE line sets obj[KEY] (a later line overrides an
\* earlier one); a line that is no KEY=VALUE pair is skipped
DotenvParse(lines) ==
  IF lines = <<>> THEN EmptyMap
  ELSE LET n == Len(lines)
           obj == DotenvParse(SubSeq(lines, 1, n - 1))
           l == lines[n]
       IN IF l.kind = "pair"
            THEN [k \in (DOMAIN obj) \cup {l.key} |-> IF k = l.key THEN l.value ELSE obj[k]]
            ELSE obj

\* dotenv.config({path}): {error} when the file cannot be read, {parsed} otherwise
DotenvConfig(file) ==
  IF file.exists
    THEN [error |-> FALSE, hasParsed |-> TRUE, parsed |-> DotenvParse(file.lines)]
    ELSE [error |-> TRUE, hasParsed |-> FALSE, parsed |-> EmptyMap]

RECURSIVE ReduceKeys(_, _, _)
ReduceKeys(env, keys, acc) ==
  IF keys = {} THEN acc
  ELSE LET key == CHOOSE k \in keys : TRUE
       IN ReduceKeys(env, keys \ {key},
                     [k \in (DOMAIN acc) \cup {key} |->
                        IF k = key THEN [value |-> env[key]] ELSE acc[k]])

\* variant of convertEnvVariables that loses one key of the mapping
convertEnvVariablesDropsKey(env) ==
  IF DOMAIN env = {} THEN ReduceKeys(env, {}, [k \in {} |-> [value |-> ""]])
  ELSE ReduceKeys(env, (DOMAIN env) \ {CHOOSE k \in DOMAIN env : TRUE},
                  [k \in {} |-> [value |-> ""]])

convertEnvVariables(env) ==
  ReduceKeys(env, DOMAIN env, [k \in {} |-> [value |-> ""]])

\* variant of loadEnvFile that swallows the failure and returns what was parsed
loadEnvFileNoThrow(file) ==
  [threw |-> FALSE, vars |-> convertEnvVariables(DotenvConfig(file).parsed)]

\* loadEnvFile: [threw |-> TRUE] or [threw |-> FALSE, vars |-> ...]
loadEnvFile(file) ==
  LET result == DotenvConfig(file)
  IN IF result.error THEN [threw |-> TRUE, vars |-> convertEnvVariables(EmptyMap)]
     ELSE IF ~result.hasParsed THEN [threw |-> TRUE, vars |-> convertEnvVariables(EmptyMap)]
     ELSE [threw |-> FALSE, vars |-> convertEnvVariables(result.parsed)]

\* ------------------------------------------------- resource declarations
Declare(stack, name, rec) ==
  [stack EXCEPT !.order = Append(@, name), !.res = (name :> rec) @@ @]

Declared(stack, name) == name \in DOMAIN stack.res

\* variant of WebBucket that ignores props.publicAccess
WebBucketAlwaysPublic(props) ==
  [kind |-> "Bucket",
   refs |-> {},
   websiteIndexDocument |-> props.indexFile,
   websiteErrorDocument |-> props.errorFile,
   publicReadAccess |-> TRUE,
   removalPolicy |-> "DESTROY",
   blockPublicAccess |-> "BLOCK_ACLS",
   accessControl |-> "BUCKET_OWNER_FULL_CONTROL",
   encryption |-> "S3_MANAGED",
   policy |-> {[actions |-> {"s3:GetObject"}, resources |-> {"webBucket/*"},
                principals |-> {"*"}]}]

\* new Bucket(this, bucketName, {...}); publicReadAccess: true makes the
\* construct grant s3:GetObject on every object to any principal
WebBucket(props) ==
  [kind |-> "Bucket",
   refs |-> {},
   websiteIndexDocument |-> props.indexFile,
   websiteErrorDocument |-> props.errorFile,
   publicReadAccess |-> props.publicAccess,
   removalPolicy |-> "DESTROY",
   blockPublicAccess |-> "BLOCK_ACLS",
   accessControl |-> "BUCKET_OWNER_FULL_CONTROL",
   encryption |-> "S3_MANAGED",
   policy |-> IF props.publicAccess
                THEN {[actions |-> {"s3:GetObject"}, resources |-> {"webBucket/*"},
                       principals |-> {"*"}]}
                ELSE {}]

\* the statement _createCloudFrontDistribution adds to the bucket's policy
OaiReadStatement ==
  [actions |-> {"s3:GetObject"}, resources |-> {"webBucket/*"}, principals |-> {"OAI"}]

DistributionName(v) ==
  IF v = 1 THEN "crm-admin-deployment-distribution" ELSE "react-deployment-distribution"

\* variant of ErrorResponses without the entry for 403
ErrorResponsesNo403(v) ==
  <<[httpStatus |-> 404, responseHttpStatus |-> 404,
     responsePagePath |-> "/index.html", ttl |-> 300]>>

\* errorResponses of the distribution, as each version lists them
ErrorResponses(v) ==
  IF v = 1
    THEN <<[httpStatus |-> 404, responseHttpStatus |-> 404,
            responsePagePath |-> "/index.html", ttl |-> 300],
           [httpStatus |-> 403, responseHttpStatus |-> 500,
            responsePagePath |-> "/index.html", ttl |-> 300]>>
    ELSE <<[httpStatus |-> 404, responseHttpStatus |-> 404,
            responsePagePath |-> "/index.html", ttl |-> 300],
           [httpStatus |-> 403, responseHttpStatus |-> 500,
            responsePagePath |-> "/index.html", ttl |-> 300]>>

DistributionDecl(v) ==
  [kind |-> "Distribution",
   refs |-> {"webBucket", "OAI"},
   distributionId |-> DistributionName(v),
   origin |-> [bucket |-> "webBucket", originAccessIdentity |-> "OAI"],
   viewerProtocolPolicy |-> "REDIRECT_TO_HTTPS",
   defaultRootObject |-> "index.html",
   errorResponses |-> ErrorResponses(v),
   priceClass |-> "PRICE_CLASS_100"]

SourceActionDecl(v, props) ==
  [kind |-> "Action",
   refs |-> {"sourceOutput"},
   type |-> "GitHubSource",
   actionName |-> IF v = 1 THEN "GitHub" ELSE "GitHub_Source",
   owner |-> props.githubRepoOwner,
   repo |-> props.githubRepoName,
   branch |-> props.branch,
   oauthToken |-> props.githubAccessToken,
   inputs |-> <<>>,
   outputs |-> <<"sourceOutput">>,
   uses |-> ""]

Cmd(c, a) == [cmd |-> c, arg |-> a]

InvalidationCmd(distributionId) ==
  Cmd("aws cloudfront create-invalidation", distributionId)

\* BuildSpec.fromObject({...}) of each version; the second version spells
\* the artifacts section "arfifacts" and nests it inside phases
BuildSpecDecl(v, distributionId) ==
  IF v = 1
    THEN [version |-> "0.2",
          phases |->
            [install |-> [runtime |-> "nodejs:latest",
                          commands |-> <<Cmd("echo", "installing npm dependencies"),
                                         Cmd("npm install", "")>>],
             build |-> [runtime |-> "",
                        commands |-> <<Cmd("echo", "building app"),
                                       Cmd("npm run build", "")>>],
             post_build |-> [runtime |-> "",
                             commands |-> <<Cmd("echo", "creating cloudfront invalidation"),
                                            InvalidationCmd(distributionId)>>]],
          artifacts |-> [baseDirectory |-> "dist", files |-> <<"**/*">>]]
    ELSE [version |-> "0.2",
          phases |->
            [install |-> [runtime |-> "",
                          commands |-> <<Cmd("echo", "installing npm dependencies"),
                                         Cmd("npm install", "")>>],
             build |-> [runtime |-> "",
                        commands |-> <<Cmd("echo", "building react app"),
                                       Cmd("npm run build", "")>>],
             post_build |-> [runtime |-> "",
                             commands |-> <<Cmd("echo", "creating cloudfront invalidation"),
                                            InvalidationCmd(distributionId)>>],
             arfifacts |-> [baseDirectory |-> "dist", files |-> <<"**/*">>]]]

Arn(service, type, id) == [service |-> service, resourceType |-> type, id |-> id]

ProjectName(v) ==
  IF v = 1 THEN "crm-admin-codebuild-project" ELSE "react-code-build-project"

\* the statements buildProject.addToRolePolicy adds in each version
BuildRolePolicy(v, distributionId) ==
  IF v = 1
    THEN {[actions |-> {"cloudfront:CreateInvalidation"},
           resources |-> {Arn("cloudfront", "distribution", distributionId)}],
          [actions |-> {"codebuild:StartBuild", "codebuild:BatchGetBuilds"},
           resources |-> {Arn("codebuild", "project", ProjectName(v))}]}
    ELSE {[actions |-> {"codebuild:StartBuild", "codebuild:BatchGetBuilds"},
           resources |-> {Arn("codebuild", "project", ProjectName(v))}]}

BuildProjectDecl(v, distributionId, envVariables) ==
  [kind |-> "Project",
   refs |-> {"distribution"},
   buildSpec |-> BuildSpecDecl(v, distributionId),
   environment |-> [buildImage |-> IF v = 1 THEN "AMAZON_LINUX_2_5" ELSE "STANDARD_5_0",
                    environmentVariables |-> envVariables],
   rolePolicy |-> BuildRolePolicy(v, distributionId)]

\* variant of BuildActionDecl whose input is not the source output
BuildActionDeclWrongInput ==
  [kind |-> "Action",
   refs |-> {"buildProject", "sourceOutput", "buildOutput"},
   type |-> "CodeBuild",
   actionName |-> "CodeBuild",
   inputs |-> <<"buildOutput">>,
   outputs |-> <<"buildOutput">>,
   uses |-> "buildProject"]

BuildActionDecl ==
  [kind |-> "Action",
   refs |-> {"buildProject", "sourceOutput", "buildOutput"},
   type |-> "CodeBuild",
   actionName |-> "CodeBuild",
   inputs |-> <<"sourceOutput">>,
   outputs |-> <<"buildOutput">>,
   uses |-> "buildProject"]

DeployActionDecl(v) ==
  [kind |-> "Action",
   refs |-> {"buildOutput", "webBucket"},
   type |-> "S3Deploy",
   actionName |-> IF v = 1 THEN "DeployToS3" ELSE "DeploytToS3",
   inputs |-> <<"buildOutput">>,
   outputs |-> <<>>,
   uses |-> "webBucket"]

\* variant of Stages with Deploy listed before Build
StagesDeployFirst(v) ==
  <<[stageName |-> "Source", actions |-> <<"sourceAction">>],
    [stageName |-> "Deploy", actions |-> <<"deployAction">>],
    [stageName |-> "Build", actions |-> <<"buildAction">>]>>

\* const stages = [...] of _createPipeline, as each version lists them
Stages(v) ==
  IF v = 1
    THEN <<[stageName |-> "Source", actions |-> <<"sourceAction">>],
           [stageName |-> "Build", actions |-> <<"buildAction">>],
           [stageName |-> "Deploy", actions |-> <<"deployAction">>]>>
    ELSE <<[stageName |-> "Source", actions |-> <<"sourceAction">>],
           [stageName |-> "Build", actions |-> <<"buildAction">>],
           [stageName |-> "Deploy", actions |-> <<"deployAction">>]>>

\* codePipeline.node.addDependency(bucket, distribution)
PipelineDependencies == {"webBucket", "distribution"}

PipelineDecl(v, props) ==
  [kind |-> "Pipeline",
   refs |-> {"sourceAction", "buildAction", "deployAction", "webBucket", "distribution"}
              \cup (IF v = 1 THEN {} ELSE {"pipelineBucket"}),
   pipelineName |-> props.pipelineName,
   artifactBucket |-> IF v = 1 THEN "" ELSE "pipelineBucket",
   stages |-> Stages(v),
   dependsOn |-> PipelineDependencies]

OutputDecl(of, field, desc) ==
  [kind |-> "CfnOutput", refs |-> {of}, value |-> <<of, field>>, description |-> desc]

\* --------------------------------------------------- the entry point
\* variant of ConstructorSteps with the build project created before the source action
ConstructorStepsBuildProjectFirst ==
  <<"createWebBucket", "createCloudFrontDistribution", "createBuildProject",
    "createSourceAction", "createBuildAction", "createDeployAction",
    "createPipeline", "outCloudfrontURL", "outS3BucketURL">>

\* the calls of the AdminInfraStack constructor, in the order it makes them
ConstructorSteps ==
  <<"createWebBucket", "createCloudFrontDistribution", "createSourceAction",
    "createBuildProject", "createBuildAction", "createDeployAction",
    "createPipeline", "outCloudfrontURL", "outS3BucketURL">>

StepIndex(s) == CHOOSE i \in 1..Len(ConstructorSteps) : ConstructorSteps[i] = s

\* where the constructor goes after step s; "return" after the last one
After(s) ==
  IF StepIndex(s) = Len(ConstructorSteps) THEN "return"
  ELSE ConstructorSteps[StepIndex(s) + 1]

NoStack == [name |-> "", props |-> EnvConfig("dev", FALSE, FALSE), order |-> <<>>,
            res |-> [n \in {} |-> [kind |-> ""]]]

NoContent == [kind |-> "none", run |-> 0]
NoResponse == [origin |-> 0, status |-> 0, page |-> ""]

InitWith(files) ==
  /\ version \in Versions
  /\ envFile \in files
  /\ envConfigs \in {<<EnvConfig("dev", d1, p1), EnvConfig("prod", d2, p2)>> :
                       d1 \in BOOLEAN, p1 \in BOOLEAN, d2 \in BOOLEAN, p2 \in BOOLEAN}
  /\ idx = 1
  /\ pc = "forEach"
  /\ cur = NoStack
  /\ stacks = <<>>
  /\ error = "none"
  /\ synthCount = 0
  /\ emitted = <<>>
  /\ live = NoStack
  /\ runs = 0
  /\ stage = 0
  /\ bpos = "idle"
  /\ buildFailed = FALSE
  /\ artifacts = [a \in {} |-> NoContent]
  /\ log = <<>>
  /\ bucketContent = NoContent
  /\ cache = NoContent
  /\ lastResponse = NoResponse

Init == InitWith(EnvFiles(MaxRunLines))

DescribeInit == InitWith(EnvFiles(MaxLines))

\* config/.env is deleted while the description runs
SettingsFileRemoved ==
  /\ pc \notin {"done", "aborted"}
  /\ envFile.exists
  /\ envFile' = [exists |-> FALSE, lines |-> <<>>]
  /\ UNCHANGED <<version, envConfigs, idx, pc, cur, stacks, error, synthCount, emitted>>
  /\ UNCHANGED runVars

\* envConfigs.forEach callback, isDeploy false: nothing is constructed
ForEachSkip ==
  /\ pc = "forEach"
  /\ idx <= Len(envConfigs)
  /\ ~envConfigs[idx].isDeploy
  /\ idx' = idx + 1
  /\ UNCHANGED <<version, envFile, envConfigs, pc, cur, stacks, error, synthCount, emitted>>
  /\ UNCHANGED runVars

\* new AdminInfraStack(app, stackName, {...envConfig, description}): super(...)
NewStack ==
  /\ pc = "forEach"
  /\ idx <= Len(envConfigs)
  /\ envConfigs[idx].isDeploy
  /\ cur' = [name |-> envConfigs[idx].stackName, props |-> envConfigs[idx],
             order |-> <<>>, res |-> [n \in {} |-> [kind |-> ""]]]
  /\ pc' = ConstructorSteps[1]
  /\ UNCHANGED <<version, envFile, envConfigs, idx, stacks, error, synthCount, emitted>>
  /\ UNCHANGED runVars

CreateWebBucket ==
  /\ pc = "createWebBucket"
  /\ cur' = Declare(cur, "webBucket", WebBucket(cur.props))
  /\ pc' = After("createWebBucket")
  /\ UNCHANGED <<version, envFile, envConfigs, idx, stacks, error, synthCount, emitted>>
  /\ UNCHANGED runVars

CreateCloudFrontDistribution ==
  /\ pc = "createCloudFrontDistribution"
  /\ LET withOai == Declare(cur, "OAI", [kind |-> "OriginAccessIdentity", refs |-> {}])
         withPolicy == [withOai EXCEPT !.res["webBucket"].policy = @ \cup {OaiReadStatement}]
     IN cur' = Declare(withPolicy, "distribution", DistributionDecl(version))
  /\ pc' = After("createCloudFrontDistribution")
  /\ UNCHANGED <<version, envFile, envConfigs, idx, stacks, error, synthCount, emitted>>
  /\ UNCHANGED runVars

CreateSourceAction ==
  /\ pc = "createSourceAction"
  /\ LET withArtifact == Declare(cur, "sourceOutput", [kind |-> "Artifact", refs |-> {}])
     IN cur' = Declare(withArtifact, "sourceAction", SourceActionDecl(version, cur.props))
  /\ pc' = After("createSourceAction")
  /\ UNCHANGED <<version, envFile, envConfigs, idx, stacks, error, synthCount, emitted>>
  /\ UNCHANGED runVars

\* _createBuildProject of the first version when loadEnvFile throws: nothing
\* catches the exception, the process ends
CreateBuildProjectThrows ==
  /\ pc = "createBuildProject"
  /\ version = 1
  /\ loadEnvFile(envFile).threw
  /\ error' = "loadEnvFile"
  /\ pc' = "aborted"
  /\ UNCHANGED <<version, envFile, envConfigs, idx, cur, stacks, synthCount, emitted>>
  /\ UNCHANGED runVars

CreateBuildProject ==
  /\ pc = "createBuildProject"
  /\ version = 1 => ~loadEnvFile(envFile).threw
  /\ LET envVariables == IF version = 1 THEN loadEnvFile(envFile).vars
                         ELSE convertEnvVariables(EmptyMap)
         withArtifact == Declare(cur, "buildOutput", [kind |-> "Artifact", refs |-> {}])
     IN cur' = Declare(withArtifact, "buildProject",
                       BuildProjectDecl(version, cur.res["distribution"].distributionId,
                                        envVariables))
  /\ pc' = After("createBuildProject")
  /\ UNCHANGED <<version, envFile, envConfigs, idx, stacks, error, synthCount, emitted>>
  /\ UNCHANGED runVars

CreateBuildAction ==
  /\ pc = "createBuildAction"
  /\ cur' = Declare(cur, "buildAction", BuildActionDecl)
  /\ pc' = After("createBuildAction")
  /\ UNCHANGED <<version, envFile, envConfigs, idx, stacks, error, synthCount, emitted>>
  /\ UNCHANGED runVars

CreateDeployAction ==
  /\ pc = "createDeployAction"
  /\ cur' = Declare(cur, "deployAction", DeployActionDecl(version))
  /\ pc' = After("createDeployAction")
  /\ UNCHANGED <<version, envFile, envConfigs, idx, stacks, error, synthCount, emitted>>
  /\ UNCHANGED runVars

CreatePipeline ==
  /\ pc = "createPipeline"
  /\ LET base == IF version = 1 THEN cur
                 ELSE Declare(cur, "pipelineBucket",
                              [kind |-> "ImportedBucket", refs |-> {},
                               bucketName |-> cur.props.pipelineBucket])
     IN cur' = Declare(base, "codePipeline", PipelineDecl(version, cur.props))
  /\ pc' = After("createPipeline")
  /\ UNCHANGED <<version, envFile, envConfigs, idx, stacks, error, synthCount, emitted>>
  /\ UNCHANGED runVars

OutCloudfrontURL ==
  /\ pc = "outCloudfrontURL"
  /\ cur' = Declare(cur, "cloudfront-web-url",
                    OutputDecl("distribution", "distributionDomainName",
                               "cloudfront website url"))
  /\ pc' = After("outCloudfrontURL")
  /\ UNCHANGED <<version, envFile, envConfigs, idx, stacks, error, synthCount, emitted>>
  /\ UNCHANGED runVars

OutS3BucketURL ==
  /\ pc = "outS3BucketURL"
  /\ cur' = Declare(cur, IF version = 1 THEN "s3-bucket-web-url" ELSE "s3-bucket-url",
                    OutputDecl("webBucket", "bucketWebsiteUrl",
                               IF version = 1 THEN "s3 bucket website url"
                               ELSE "s3 bucket url"))
  /\ pc' = After("outS3BucketURL")
  /\ UNCHANGED <<version, envFile, envConfigs, idx, stacks, error, synthCount, emitted>>
  /\ UNCHANGED runVars

\* the constructor returns: the forEach callback ends, the next element is due
ConstructorReturns ==
  /\ pc = "return"
  /\ stacks' = Append(stacks, cur)
  /\ cur' = NoStack
  /\ idx' = idx + 1
  /\ pc' = "forEach"
  /\ UNCHANGED <<version, envFile, envConfigs, error, synthCount, emitted>>
  /\ UNCHANGED runVars

\* variant of Synth that does not wait for the forEach to finish
SynthBeforeLoopEnds ==
  /\ pc = "forEach"
  /\ synthCount' = synthCount + 1
  /\ emitted' = stacks
  /\ pc' = "done"
  /\ UNCHANGED <<version, envFile, envConfigs, idx, cur, stacks, error>>
  /\ UNCHANGED runVars

\* app.synth(): the cloud assembly holds a template for every stack of the app
Synth ==
  /\ pc = "forEach"
  /\ idx > Len(envConfigs)
  /\ synthCount' = synthCount + 1
  /\ emitted' = stacks
  /\ pc' = "done"
  /\ UNCHANGED <<version, envFile, envConfigs, idx, cur, stacks, error>>
  /\ UNCHANGED runVars

\* ------------------------------------ the provisioned stack at run time
OriginStatuses == {200, 403, 404, 500}

\* the stack of the cloud assembly that is provisioned and observed
Provision ==
  /\ pc = "done"
  /\ live = NoStack
  /\ \E i \in 1..Len(emitted) : live' = emitted[i]
  /\ UNCHANGED declVars
  /\ UNCHANGED <<runs, stage, bpos, buildFailed, artifacts, log, bucketContent, cache,
                 lastResponse>>

Pipeline == live.res["codePipeline"]
CurStage == Pipeline.stages[stage]
CurAction == live.res[CurStage.actions[1]]
Event(e, s, r) == [ev |-> e, stage |-> s, ready |-> r]
InputsReady(action) == \A i \in 1..Len(action.inputs) : action.inputs[i] \in DOMAIN artifacts
FirstPos(action) ==
  IF action.type = "GitHubSource" THEN "fetch"
  ELSE IF action.type = "CodeBuild" THEN "install"
  ELSE "publish"

\* a change on the branch starts an execution at the first stage
StartExecution ==
  /\ live # NoStack
  /\ stage = 0
  /\ runs < MaxRuns
  /\ runs' = runs + 1
  /\ stage' = 1
  /\ bpos' = "start"
  /\ buildFailed' = FALSE
  /\ artifacts' = [a \in {} |-> NoContent]
  /\ log' = <<>>
  /\ UNCHANGED declVars
  /\ UNCHANGED <<live, bucketContent, cache, lastResponse>>

\* the stage in progress starts its action
BeginStage ==
  /\ stage > 0
  /\ bpos = "start"
  /\ log' = Append(log, Event("start", CurStage.stageName, InputsReady(CurAction)))
  /\ bpos' = FirstPos(CurAction)
  /\ UNCHANGED declVars
  /\ UNCHANGED <<live, runs, stage, buildFailed, artifacts, bucketContent, cache, lastResponse>>

\* the stage in progress succeeded: the next stage is due, or the execution ends
Advance(s) == IF s < Len(Pipeline.stages) THEN s + 1 ELSE 0
AdvancePos(s) == IF s < Len(Pipeline.stages) THEN "start" ELSE "idle"

\* GitHubSourceAction: the branch's snapshot becomes the output artifact
SourceFetch ==
  /\ stage > 0
  /\ bpos = "fetch"
  /\ artifacts' = (CurAction.outputs[1] :> [kind |-> "source", run |-> runs]) @@ artifacts
  /\ log' = Append(log, Event("end", CurStage.stageName, TRUE))
  /\ stage' = Advance(stage)
  /\ bpos' = AdvancePos(stage)
  /\ UNCHANGED declVars
  /\ UNCHANGED <<live, runs, buildFailed, bucketContent, cache, lastResponse>>

BuildSpecOf(action) == live.res[action.uses].buildSpec
RolePolicyOf(action) == live.res[action.uses].rolePolicy

\* install phase: "npm install" succeeds or fails; a failed install ends the build
BuildInstall ==
  /\ stage > 0
  /\ bpos = "install"
  /\ \E ok \in BOOLEAN :
       /\ buildFailed' = ~ok
       /\ bpos' = IF ok THEN "build" ELSE "finish"
  /\ UNCHANGED declVars
  /\ UNCHANGED <<live, runs, stage, artifacts, log, bucketContent, cache, lastResponse>>

\* build phase: "npm run build" succeeds or fails; post_build runs either way
BuildBuild ==
  /\ stage > 0
  /\ bpos = "build"
  /\ \E ok \in BOOLEAN : buildFailed' = ~ok
  /\ bpos' = "post_build"
  /\ UNCHANGED declVars
  /\ UNCHANGED <<live, runs, stage, artifacts, log, bucketContent, cache, lastResponse>>

InvalidationOf(spec) == spec.phases.post_build.commands[2]

\* the build role may create an invalidation of the distribution with this id
MayInvalidate(policy, distributionId) ==
  \E st \in policy :
    /\ "cloudfront:CreateInvalidation" \in st.actions
    /\ Arn("cloudfront", "distribution", distributionId) \in st.resources

\* post_build phase: aws cloudfront create-invalidation --paths '/*'
BuildPostBuild ==
  /\ stage > 0
  /\ bpos = "post_build"
  /\ LET target == InvalidationOf(BuildSpecOf(CurAction)).arg
     IN IF MayInvalidate(RolePolicyOf(CurAction), target)
          THEN /\ log' = Append(log, Event("invalidate", CurStage.stageName, TRUE))
               /\ cache' = IF target = live.res["distribution"].distributionId
                             THEN NoContent ELSE cache
               /\ UNCHANGED buildFailed
          ELSE /\ log' = Append(log, Event("invalidation-rejected", CurStage.stageName, TRUE))
               /\ buildFailed' = TRUE
               /\ UNCHANGED cache
  /\ bpos' = "finish"
  /\ UNCHANGED declVars
  /\ UNCHANGED <<live, runs, stage, artifacts, bucketContent, lastResponse>>

\* what the build uploads as its output artifact: the files the buildspec's
\* artifacts section names, nothing when the buildspec has no such section
BuildOutputContent(spec, run) ==
  IF "artifacts" \in DOMAIN spec
    THEN [kind |-> spec.artifacts.baseDirectory, run |-> run]
    ELSE [kind |-> "empty", run |-> run]

\* the build ends: failed if a phase failed (the execution stops), else the
\* output artifact is stored and the next stage is due
BuildFinish ==
  /\ stage > 0
  /\ bpos = "finish"
  /\ IF buildFailed
       THEN /\ log' = Append(log, Event("failed", CurStage.stageName, TRUE))
            /\ stage' = 0
            /\ bpos' = "idle"
            /\ UNCHANGED artifacts
       ELSE /\ artifacts' = (CurAction.outputs[1] :>
                               BuildOutputContent(BuildSpecOf(CurAction), runs)) @@ artifacts
            /\ log' = Append(log, Event("end", CurStage.stageName, TRUE))
            /\ stage' = Advance(stage)
            /\ bpos' = AdvancePos(stage)
  /\ UNCHANGED declVars
  /\ UNCHANGED <<live, runs, buildFailed, bucketContent, cache, lastResponse>>

\* S3DeployAction: the input artifact's files are written to the bucket
DeployPublish ==
  /\ stage > 0
  /\ bpos = "publish"
  /\ bucketContent' = IF InputsReady(CurAction) THEN artifacts[CurAction.inputs[1]]
                      ELSE [kind |-> "missing", run |-> runs]
  /\ log' = Append(Append(log, Event("publish", CurStage.stageName, TRUE)),
                   Event("end", CurStage.stageName, TRUE))
  /\ stage' = Advance(stage)
  /\ bpos' = AdvancePos(stage)
  /\ UNCHANGED declVars
  /\ UNCHANGED <<live, runs, buildFailed, artifacts, cache>>
  /\ UNCHANGED lastResponse

\* the distribution's answer to an origin response with this status
Respond(dist, originStatus) ==
  LET hits == {i \in 1..Len(dist.errorResponses) :
                 dist.errorResponses[i].httpStatus = originStatus}
  IN IF hits = {}
       THEN [origin |-> originStatus, status |-> originStatus, page |-> ""]
       ELSE LET r == dist.errorResponses[CHOOSE i \in hits : TRUE]
            IN [origin |-> originStatus, status |-> r.responseHttpStatus,
                page |-> r.responsePagePath]

\* a viewer request that the distribution answers from its cache
ViewerRequestCached ==
  /\ live # NoStack
  /\ cache # NoContent
  /\ lastResponse' = [origin |-> 200, status |-> 200, page |-> ""]
  /\ UNCHANGED declVars
  /\ UNCHANGED <<live, runs, stage, bpos, buildFailed, artifacts, log, bucketContent, cache>>

\* a viewer request that goes to the origin: a 200 is cached, an error status
\* is answered as errorResponses says
ViewerRequestOrigin ==
  /\ live # NoStack
  /\ cache = NoContent
  /\ \E s \in OriginStatuses :
       /\ s = 200 => bucketContent # NoContent
       /\ lastResponse' = Respond(live.res["distribution"], s)
       /\ cache' = IF s = 200 THEN bucketContent ELSE cache
  /\ UNCHANGED declVars
  /\ UNCHANGED <<live, runs, stage, bpos, buildFailed, artifacts, log, bucketContent>>

\* the entry point: description of the selected stacks, then synthesis
Describe ==
  \/ SettingsFileRemoved
  \/ ForEachSkip
  \/ NewStack
  \/ CreateWebBucket
  \/ CreateCloudFrontDistribution
  \/ CreateSourceAction
  \/ CreateBuildProjectThrows
  \/ CreateBuildProject
  \/ CreateBuildAction
  \/ CreateDeployAction
  \/ CreatePipeline
  \/ OutCloudfrontURL
  \/ OutS3BucketURL
  \/ ConstructorReturns
  \/ Synth

\* the provisioned stack: pipeline executions and viewer requests
Run ==
  \/ Provision
  \/ StartExecution
  \/ BeginStage
  \/ SourceFetch
  \/ BuildInstall
  \/ BuildBuild
  \/ BuildPostBuild
  \/ BuildFinish
  \/ DeployPublish
  \/ ViewerRequestCached
  \/ ViewerRequestOrigin

Next == Describe \/ Run

Spec == Init /\ [][Next]_vars

\* the description alone, over the longer settings files
DescribeSpec == DescribeInit /\ [][Describe]_vars

\* ------------------------------------------------------------ properties
\* every stack the run has described so far, finished or under construction
Described ==
  {stacks[i] : i \in 1..Len(stacks)} \cup (IF cur = NoStack THEN {} ELSE {cur})

Range(q) == {q[i] : i \in 1..Len(q)}
IsPrefix(p, q) == Len(p) <= Len(q) /\ SubSeq(q, 1, Len(p)) = p

\* the stage of this pipeline whose action outputs artifact a
Producers(s, a) ==
  {st \in Range(s.res["codePipeline"].stages) :
     \E n \in Range(st.actions) : a \in Range(s.res[n].outputs)}

C1_Declared(s) ==
  LET st == s.res["codePipeline"].stages
  IN /\ Len(st) = 3
     /\ [i \in 1..3 |-> st[i].stageName] = <<"Source", "Build", "Deploy">>
     /\ \A i \in 1..3 : Len(st[i].actions) = 1
     /\ LET src == s.res[st[1].actions[1]]
            bld == s.res[st[2].actions[1]]
            dep == s.res[st[3].actions[1]]
        IN /\ src.type = "GitHubSource" /\ src.inputs = <<>> /\ Len(src.outputs) = 1
           /\ bld.type = "CodeBuild" /\ bld.inputs = src.outputs /\ Len(bld.outputs) = 1
           /\ dep.type = "S3Deploy" /\ dep.inputs = bld.outputs
           /\ dep.uses = "webBucket" /\ s.res["webBucket"].kind = "Bucket"

C1_Executed ==
  \A i \in 1..Len(log) :
    log[i].ev = "start" =>
      /\ log[i].ready
      /\ \A st \in Range(Pipeline.stages) : st.stageName = log[i].stage =>
           \A n \in Range(st.actions) : \A a \in Range(live.res[n].inputs) :
             \E j \in 1..(i - 1) :
               /\ log[j].ev = "end"
               /\ \E p \in Producers(live, a) : p.stageName = log[j].stage

\* C1: every declared pipeline has exactly the stages Source, Build, Deploy in
\* that order, one action each, the source action's output being the build
\* action's only input and the build action's output the deploy action's only
\* input, the deploy action targeting the stack's own web bucket; and in every
\* execution a stage starts only after the stage producing its input artifact
\* has ended.
C1_PipelineChained ==
  /\ \A s \in Described : Declared(s, "codePipeline") => C1_Declared(s)
  /\ live # NoStack => C1_Declared(live) /\ C1_Executed

C1_Witness ==
  /\ live # NoStack
  /\ \E i \in 1..Len(log) : log[i].ev = "start" /\ log[i].stage = "Deploy"

C2_BadFileStep ==
  LET malformed == envFile.exists /\ GarbageLine \in Range(envFile.lines)
  IN (pc = "createBuildProject" /\ (~envFile.exists \/ malformed)) =>
       pc' \in {"createBuildProject", "aborted"}

\* C2 as stated: when config/.env is missing or malformed at the time a stack
\* being described needs its build project, the description aborts: the
\* constructor does not go on (so app.synth() is never reached).
C2_AbortsOnMissingOrMalformed == [][C2_BadFileStep]_vars

C2_AbortStep ==
  (version = 1 /\ pc = "createBuildProject" /\ ~envFile.exists) =>
     (pc' = "aborted" /\ error' = "loadEnvFile" /\ synthCount' = 0 /\ emitted' = <<>>)

\* C2 amended: when config/.env is missing at the time a first-version stack
\* reaches _createBuildProject, loadEnvFile throws and the run ends there:
\* it never resumes, app.synth() is never called and nothing is emitted, also
\* not for stacks constructed earlier in the run.
C2_AbortsOnMissing ==
  /\ [](pc = "aborted" =>
          (version = 1 /\ error = "loadEnvFile" /\ synthCount = 0 /\ emitted = <<>>
           /\ live = NoStack))
  /\ [][C2_AbortStep]_vars
  /\ [][pc = "aborted" => pc' = "aborted"]_vars

C2_Witness == pc = "aborted" /\ Len(stacks) = 1

\* the principals the bucket's policy lets read its objects
ReadPrincipals(s) ==
  UNION {st.principals : st \in {x \in s.res["webBucket"].policy :
                                   "s3:GetObject" \in x.actions}}

\* C3 as stated: for every value of publicAccess the only principal granted
\* read on the bucket's objects is the stack's origin access identity.
C3_OnlyOai ==
  \A s \in Described : Declared(s, "distribution") => ReadPrincipals(s) = {"OAI"}

\* C3 amended: with publicAccess false the only principal granted read on the
\* bucket's objects is the origin access identity of the stack's distribution;
\* with publicAccess true the bucket also grants read to every principal.
C3_OnlyOaiUnlessPublic ==
  \A s \in Described :
    /\ Declared(s, "distribution") =>
         /\ s.res["distribution"].origin.originAccessIdentity = "OAI"
         /\ s.res["distribution"].origin.bucket = "webBucket"
         /\ ReadPrincipals(s) = IF s.props.publicAccess THEN {"OAI", "*"} ELSE {"OAI"}
    /\ (Declared(s, "webBucket") /\ ~Declared(s, "distribution")) =>
         ReadPrincipals(s) = IF s.props.publicAccess THEN {"*"} ELSE {}

C3_Witness ==
  \E s \in Described : Declared(s, "distribution") /\ ~s.props.publicAccess

\* C4: an origin response with status 404 or 403 is answered with the page
\* /index.html, by the distribution of either version.
C4_ErrorsServeIndex ==
  /\ \A s \in Described : Declared(s, "distribution") =>
       \A code \in {403, 404} : Respond(s.res["distribution"], code).page = "/index.html"
  /\ lastResponse.origin \in {403, 404} => lastResponse.page = "/index.html"

C4_Witness == version = 2 /\ lastResponse.origin = 403

MainNames(v) ==
  <<"webBucket", "distribution", "sourceAction", "buildProject", "buildAction",
    "deployAction", "codePipeline", "cloudfront-web-url",
    IF v = 1 THEN "s3-bucket-web-url" ELSE "s3-bucket-url">>

IsMain(n) == n \in Range(MainNames(1)) \cup Range(MainNames(2))

RECURSIVE Reach(_, _)
\* everything the declared resource n references, directly or through others
Reach(s, n) ==
  s.res[n].refs \cup UNION {Reach(s, m) : m \in {r \in s.res[n].refs : Declared(s, r)}}

C5_Ordered(s) ==
  /\ IsPrefix(SelectSeq(s.order, IsMain), MainNames(version))
  /\ \A i \in 1..Len(s.order) :
       s.res[s.order[i]].refs \subseteq {s.order[j] : j \in 1..(i - 1)}
  /\ Declared(s, "distribution") => "webBucket" \in s.res["distribution"].refs
  /\ Declared(s, "codePipeline") =>
       /\ {"webBucket", "distribution"} \subseteq
            UNION {Reach(s, n) : n \in UNION {Range(st.actions) :
                                                st \in Range(s.res["codePipeline"].stages)}}
       /\ s.res["codePipeline"].dependsOn = {"webBucket", "distribution"}

\* C5: a stack is composed in the order bucket, distribution, source action,
\* build project, build action, deploy action, pipeline, the two outputs; a
\* resource is declared only after everything it references; the distribution
\* references the bucket, the pipeline's stage actions reach both the bucket
\* and the distribution, and the pipeline depends explicitly on both.
C5_LinearComposition == \A s \in Described : C5_Ordered(s)

C5_Witness == \E i \in 1..Len(stacks) : Len(SelectSeq(stacks[i].order, IsMain)) = 9

\* the value the settings file gives key k: that of the last line setting it
FileValue(lines, k) ==
  lines[CHOOSE i \in 1..Len(lines) :
          /\ lines[i].kind = "pair" /\ lines[i].key = k
          /\ \A j \in (i + 1)..Len(lines) : ~(lines[j].kind = "pair" /\ lines[j].key = k)].value

FileKeys(lines) == {l.key : l \in {x \in Range(lines) : x.kind = "pair"}}

\* C6: the variables convertEnvVariables produces, and the first version's
\* build project is given, have exactly the keys of the settings file, each
\* with the file's value for that key; and loadEnvFile fails when the file is
\* absent.
C6_SettingsRoundTrip ==
  /\ envFile.exists =>
       /\ ~loadEnvFile(envFile).threw
       /\ DOMAIN loadEnvFile(envFile).vars = FileKeys(envFile.lines)
       /\ \A k \in FileKeys(envFile.lines) :
            loadEnvFile(envFile).vars[k] = [value |-> FileValue(envFile.lines, k)]
       /\ \A s \in Described : (version = 1 /\ Declared(s, "buildProject")) =>
            LET ev == s.res["buildProject"].environment.environmentVariables
            IN /\ DOMAIN ev = FileKeys(envFile.lines)
               /\ \A k \in DOMAIN ev : ev[k] = [value |-> FileValue(envFile.lines, k)]
  /\ ~envFile.exists => loadEnvFile(envFile).threw
  /\ (pc = "aborted") => ~envFile.exists

C6_Witness ==
  /\ version = 1
  /\ envFile.exists
  /\ \E s \in Described :
       /\ Declared(s, "buildProject")
       /\ Cardinality(DOMAIN s.res["buildProject"].environment.environmentVariables) = 2

\* what a buildspec declares as the build's artifacts
DeclaredArtifacts(spec) ==
  IF "artifacts" \in DOMAIN spec THEN {spec.artifacts} ELSE {}

PhaseCommands(spec) ==
  [ph \in DOMAIN spec.phases |->
     IF "commands" \in DOMAIN spec.phases[ph]
       THEN [i \in 1..Len(spec.phases[ph].commands) |-> spec.phases[ph].commands[i].cmd]
       ELSE <<>>]

GrantedActions(policy) == UNION {st.actions : st \in policy}

\* C7: what the described version declares is what the other version declares
\* for the same configuration: the same build phases and build artifacts, the
\* same permissions of the build role, the same stage wiring.
C7_VersionsEquivalent ==
  \A s \in Described : Declared(s, "buildProject") =>
    LET mine == s.res["buildProject"]
        id == s.res["distribution"].distributionId
        other == 3 - version
    IN /\ PhaseCommands(mine.buildSpec) = PhaseCommands(BuildSpecDecl(other, id))
       /\ DeclaredArtifacts(mine.buildSpec) = DeclaredArtifacts(BuildSpecDecl(other, id))
       /\ GrantedActions(mine.rolePolicy) = GrantedActions(BuildRolePolicy(other, id))
       /\ Declared(s, "codePipeline") => s.res["codePipeline"].stages = Stages(other)

LastPublish == {i \in 1..Len(log) : log[i].ev = "publish"}
Invalidations == {i \in 1..Len(log) : log[i].ev \in {"invalidate", "invalidation-rejected"}}

\* C8: in an execution the invalidation is issued in the Build stage, before
\* the Deploy stage publishes, and none is issued after the publication.
C8_InvalidationBeforePublish ==
  /\ \A j \in Invalidations : log[j].stage = "Build" /\ \A i \in LastPublish : j < i
  /\ \A i \in LastPublish :
       log[i].stage = "Deploy" /\ \E j \in Invalidations : j < i /\ log[j].ev = "invalidate"

\* after a complete second execution the distribution still holds the
\* previous content, cached between the invalidation and the publication
C8_Witness ==
  /\ stage = 0
  /\ LastPublish # {}
  /\ bucketContent = [kind |-> "dist", run |-> 2]
  /\ cache = [kind |-> "dist", run |-> 1]

\* C9: the build role of every described stack may create an invalidation of
\* exactly the distribution its post_build command names, the stack's own,
\* and no execution has its invalidation rejected.
C9_InvalidationPermitted ==
  /\ \A s \in Described : Declared(s, "buildProject") =>
       LET bp == s.res["buildProject"]
           id == InvalidationOf(bp.buildSpec).arg
       IN /\ id = s.res["distribution"].distributionId
          /\ MayInvalidate(bp.rolePolicy, id)
          /\ UNION {st.resources : st \in {x \in bp.rolePolicy :
                      "cloudfront:CreateInvalidation" \in x.actions}}
               = {Arn("cloudfront", "distribution", id)}
  /\ \A i \in 1..Len(log) : log[i].ev # "invalidation-rejected"

\* the stack names of the configurations among the first n that are selected
RECURSIVE SelectedNames(_, _)
SelectedNames(cfgs, n) ==
  IF n = 0 THEN <<>>
  ELSE IF cfgs[n].isDeploy THEN Append(SelectedNames(cfgs, n - 1), cfgs[n].stackName)
  ELSE SelectedNames(cfgs, n - 1)

StackNames == [i \in 1..Len(stacks) |-> stacks[i].name]

\* C10 as stated: a run that has ended has constructed one stack per selected
\* configuration, in list order, and has called app.synth() exactly once.
C10_SynthExactlyOnce ==
  pc \in {"done", "aborted"} =>
    (synthCount = 1 /\ StackNames = SelectedNames(envConfigs, Len(envConfigs)))

\* C10 amended: stacks are constructed one per selected configuration, named
\* by its stackName, in list order; app.synth() is called at most once, only
\* after every selected stack has been constructed, and exactly once in every
\* run in which no constructor throws; a run in which one throws ends without
\* calling it.
C10_SynthOnceUnlessAborted ==
  /\ synthCount <= 1
  /\ pc \in {"forEach", "done"} =>
       StackNames = SelectedNames(envConfigs, IF idx > Len(envConfigs) THEN Len(envConfigs)
                                              ELSE idx - 1)
  /\ (cur # NoStack) =>
       /\ envConfigs[idx].isDeploy /\ cur.name = envConfigs[idx].stackName
       /\ StackNames = SelectedNames(envConfigs, idx - 1)
  /\ synthCount = 1 <=> pc = "done"
  /\ pc = "done" =>
       /\ StackNames = SelectedNames(envConfigs, Len(envConfigs))
       /\ emitted = stacks
  /\ pc = "aborted" => synthCount = 0

C10_Witness == pc = "done" /\ Len(stacks) = 2

====
